---------------------------- MODULE Spec2Model ----------------------------
(***************************************************************************)
(* Model of src/architect_rater.py: the rate tables, the helper functions, *)
(* the rating engine calculate_architect_premium and the Streamlit script  *)
(* main that drives it.                                                    *)
(*                                                                         *)
(* Units.  The program computes with Python floats; the model computes the *)
(* same expressions exactly, in decimal fixed point:                       *)
(*   - rates, discounts and factors are integers in hundredths             *)
(*     (0.05 is 5, 1.57 is 157, -0.25 is -25, 0.75 is 75);                 *)
(*   - percentages are integers (percent);                                 *)
(*   - discipline_factor is in 1/10^4 (hundredths x percent);              *)
(*   - a premium is an unbounded natural number (a Big, below) counted in  *)
(*     the unit of its pipeline step: base_premium in 10^-2, after         *)
(*     disciplines 10^-6, then two more decimal places per step down to    *)
(*     final_premium in 10^-20;                                            *)
(*   - standard_excess is in whole pounds, actual_excess in 10^-2.         *)
(* A float result differs from the exact one by rounding in its last       *)
(* digits only (4094.9999999999995 for 4095); round() in                   *)
(* calculate_standard_excess sees the exact quotient on every fee income   *)
(* of the model.  Where that rounding is what a property is about, the     *)
(* operators named ..._f64 compute the same premiums as the program's      *)
(* floats, bit for bit.                                                    *)
(***************************************************************************)
EXTENDS Integers, Sequences, FiniteSets, TLC

VARIABLES
    tables,            \* the module-level rate tables (lines 9-88)
    pc,                \* "idle" | "returned": position of a direct caller of the engine
    call,              \* arguments of the engine call in progress / last made
    outcome,           \* what that call produced: a result dict or a KeyError
    emitted,           \* Streamlit elements (st.warning/st.error/st.success) emitted by the current run
    ref,               \* history: an earlier call and what it produced
    widgets,           \* values held by the input widgets of main
    edits,             \* number of widget edits made in the session
    button,            \* st.button("Calculate Premium") of the last script run
    total_percentage,  \* total_percentage accumulated by the last script run
    rendered           \* what the last script run rendered below the button

vars == <<tables, pc, call, outcome, emitted, ref,
          widgets, edits, button, total_percentage, rendered>>

-----------------------------------------------------------------------------
(* Bounds of the model *)

\* at most this many arguments of a direct engine call differ from the baseline scenario
MaxOverrides == 2
\* the helper functions are applied to the fee incomes 0, 12500, ... , MaxFeeSteps * 12500
MaxFeeSteps == 100
\* at most this many widget edits in one UI session
MaxEdits == 2

-----------------------------------------------------------------------------
(* Rate tables, lines 9-88 *)

ARCHITECT_BASE_RATE == 1

NewBuild == "Architectural Work - New Build"

ARCHITECT_DISCIPLINES ==
    (NewBuild :> 200) @@
    ("Architectural Work - Non-Structural Refurb" :> 100) @@
    ("Architectural Consultancy" :> 100) @@
    ("Aborted Work" :> 50) @@
    ("Acoustic" :> 100) @@
    ("Building Surveying" :> 250) @@
    ("CDM/Planning Supervision" :> 50) @@
    ("Expert Witness" :> 50) @@
    ("Feasibility Studies" :> 50) @@
    ("Interior Design" :> 50) @@
    ("Landscape Architecture" :> 50) @@
    ("Other Surveys" :> 300) @@
    ("Project Co-ordination" :> 150) @@
    ("Project Management" :> 200) @@
    ("Quantity Surveying" :> 75) @@
    ("Town Planning" :> 50) @@
    ("Other Work" :> 100)

\* float('inf') of the last bracket is the bracket with finite = FALSE
FEE_SIZE_DISCOUNTS ==
    << [threshold |-> 100000,  finite |-> TRUE,  discount |-> 0],
       [threshold |-> 200000,  finite |-> TRUE,  discount |-> 5],
       [threshold |-> 300000,  finite |-> TRUE,  discount |-> 10],
       [threshold |-> 500000,  finite |-> TRUE,  discount |-> 15],
       [threshold |-> 750000,  finite |-> TRUE,  discount |-> 20],
       [threshold |-> 1000000, finite |-> TRUE,  discount |-> 22],
       [threshold |-> 0,       finite |-> FALSE, discount |-> 25] >>

LIMIT_OF_INDEMNITY_FACTORS ==
    (100000 :> 40) @@ (250000 :> 50) @@ (500000 :> 76) @@ (750000 :> 90) @@
    (1000000 :> 100) @@ (2000000 :> 130) @@ (3000000 :> 145) @@
    (4000000 :> 157) @@ (5000000 :> 165)

NO_CLAIMS_DISCOUNTS ==
    ("0-3 years" :> 0) @@ ("3-5 years" :> 10) @@ ("5-10 years" :> 20) @@
    ("10+ years" :> 30)

RETROACTIVE_DISCOUNTS ==
    ("Inception" :> 25) @@ ("After 12 months" :> 10) @@ ("2+ years coverage" :> 0)

\* keys are the multipliers in hundredths; values the 'discount' entries
EXCESS_MULTIPLIERS ==
    (50 :> -25) @@ (75 :> -10) @@ (100 :> 0) @@ (200 :> 8) @@ (300 :> 15) @@
    (400 :> 20) @@ (500 :> 23)

AGGREGATE_EXCESS_OPTIONS ==
    ("standard" :> 0) @@ ("agg_cap_no_thereafter" :> 15) @@
    ("agg_cap_reduced_thereafter" :> 10)

RateTables ==
    [ ARCHITECT_BASE_RATE        |-> ARCHITECT_BASE_RATE,
      ARCHITECT_DISCIPLINES      |-> ARCHITECT_DISCIPLINES,
      FEE_SIZE_DISCOUNTS         |-> FEE_SIZE_DISCOUNTS,
      LIMIT_OF_INDEMNITY_FACTORS |-> LIMIT_OF_INDEMNITY_FACTORS,
      NO_CLAIMS_DISCOUNTS        |-> NO_CLAIMS_DISCOUNTS,
      RETROACTIVE_DISCOUNTS      |-> RETROACTIVE_DISCOUNTS,
      EXCESS_MULTIPLIERS         |-> EXCESS_MULTIPLIERS,
      AGGREGATE_EXCESS_OPTIONS   |-> AGGREGATE_EXCESS_OPTIONS ]

-----------------------------------------------------------------------------
(* Exact arithmetic on premiums: a Big is a natural number written in base *)
(* 10^4, least significant limb first, without leading zero limbs.         *)

RECURSIVE FromNat(_)
FromNat(n) == IF n = 0 THEN << >> ELSE <<n % 10000>> \o FromNat(n \div 10000)

RECURSIVE MulLimbs(_, _, _)
MulLimbs(b, k, carry) ==
    IF b = << >> THEN FromNat(carry)
    ELSE LET p == Head(b) * k + carry
         IN  <<p % 10000>> \o MulLimbs(Tail(b), k, p \div 10000)

\* b * k for a natural k below 200000
BigMul(b, k) == IF k = 0 THEN << >> ELSE MulLimbs(b, k, 0)

\* the amount of n pounds counted in 10^-places, places even
RECURSIVE Pounds(_, _)
Pounds(n, places) ==
    IF places = 0 THEN FromNat(n) ELSE BigMul(Pounds(n, places - 2), 100)

\* a leading (most significant) run of zero limbs removed
RECURSIVE Strip(_)
Strip(b) ==
    IF b = << >> THEN b
    ELSE IF b[Len(b)] = 0 THEN Strip(SubSeq(b, 1, Len(b) - 1)) ELSE b

RECURSIVE CmpLimbs(_, _, _)
CmpLimbs(a, b, i) ==
    IF i = 0 THEN 0
    ELSE IF a[i] < b[i] THEN -1
    ELSE IF a[i] > b[i] THEN 1
    ELSE CmpLimbs(a, b, i - 1)

\* -1, 0 or 1 as a < b, a = b or a > b
BigCmp(a, b) ==
    IF Len(a) < Len(b) THEN -1
    ELSE IF Len(a) > Len(b) THEN 1
    ELSE CmpLimbs(a, b, Len(a))

RECURSIVE AddLimbs(_, _, _)
AddLimbs(a, b, carry) ==
    IF a = << >> /\ b = << >> THEN FromNat(carry)
    ELSE LET s == (IF a = << >> THEN 0 ELSE Head(a))
                    + (IF b = << >> THEN 0 ELSE Head(b)) + carry
         IN  <<s % 10000>> \o AddLimbs(IF a = << >> THEN a ELSE Tail(a),
                                        IF b = << >> THEN b ELSE Tail(b),
                                        s \div 10000)

BigAdd(a, b) == AddLimbs(a, b, 0)

RECURSIVE SubLimbs(_, _, _)
SubLimbs(a, b, borrow) ==
    IF a = << >> THEN << >>
    ELSE LET s == Head(a) - (IF b = << >> THEN 0 ELSE Head(b)) - borrow
         IN  <<(s + 10000) % 10000>>
               \o SubLimbs(Tail(a), IF b = << >> THEN b ELSE Tail(b),
                           IF s < 0 THEN 1 ELSE 0)

\* a - b for a >= b
BigSub(a, b) == Strip(SubLimbs(a, b, 0))

\* a * b
RECURSIVE BigMulBig(_, _)
BigMulBig(a, b) ==
    IF a = << >> \/ b = << >> THEN << >>
    ELSE LET rest == BigMulBig(a, Tail(b))
         IN  BigAdd(BigMul(a, Head(b)), IF rest = << >> THEN rest ELSE <<0>> \o rest)

\* the limbs i, ..., 1 of a divided by k, rem carried in from the limbs above them
RECURSIVE DivLimbs(_, _, _, _)
DivLimbs(a, k, i, rem) ==
    IF i = 0 THEN [q |-> << >>, r |-> rem]
    ELSE LET cur  == rem * 10000 + a[i]
             rest == DivLimbs(a, k, i - 1, cur % k)
         IN  [q |-> rest.q \o <<cur \div k>>, r |-> rest.r]

\* quotient q and remainder r of a by k, for 0 < k <= 2^17
BigDivMod(a, k) ==
    LET d == DivLimbs(a, k, Len(a), 0) IN [q |-> Strip(d.q), r |-> d.r]

RECURSIVE Pow2From(_)
Pow2From(n) ==
    IF n = 0 THEN <<1>>
    ELSE IF n >= 13 THEN BigMul(Pow2From(n - 13), 8192)
    ELSE BigMul(Pow2From(n - 1), 2)

\* << 2^lo, ..., 2^hi >>
RECURSIVE PowersBetween(_, _)
PowersBetween(lo, hi) ==
    IF lo = hi THEN << Pow2From(lo) >>
    ELSE LET mid == (lo + hi) \div 2
         IN  PowersBetween(lo, mid) \o PowersBetween(mid + 1, hi)

\* the powers of two the model uses, computed once
PowersOfTwo == PowersBetween(0, 160)

Pow2(n) == PowersOfTwo[n + 1]

\* the least n >= from with b < 2^n
RECURSIVE BitsFrom(_, _)
BitsFrom(b, from) == IF BigCmp(b, Pow2(from)) < 0 THEN from ELSE BitsFrom(b, from + 1)

\* the number of bits of 0 <= n < 10^4
RECURSIVE SmallBits(_)
SmallBits(n) == IF n = 0 THEN 0 ELSE 1 + SmallBits(n \div 2)

\* the number of bits of b > 0: with L limbs above the lowest and top limb t,
\* b >= t * 10^(4L) >= t * 2^(13.28 L)
BitLength(b) ==
    LET L == Len(b) - 1
    IN  BitsFrom(b, 13 * L + (28 * L) \div 100 + SmallBits(b[Len(b)]))

\* b shifted right by s bits, 17 at a time: q is what is left, inexact is set when a
\* one was shifted out
RECURSIVE ShiftRight(_, _, _)
ShiftRight(b, s, inexact) ==
    IF s = 0 THEN [q |-> b, inexact |-> inexact]
    ELSE LET k == IF s >= 17 THEN 17 ELSE s
             d == DivLimbs(b, 2^k, Len(b), 0)
         IN  ShiftRight(Strip(d.q), s - k, inexact \/ d.r # 0)

-----------------------------------------------------------------------------
(* Python floats, the arithmetic of lines 154-190: IEEE 754 binary64.  A    *)
(* float x >= 0 is the record [m, e] of value m * 2^e, with 2^52 <= m <     *)
(* 2^53, or with m = 0 and e = 0.  Every operation returns the float        *)
(* nearest to the exact result, a tie going to the even significand.  The   *)
(* values of the program stay far from the overflow and subnormal ranges.   *)

TwoTo52 == Pow2(52)
TwoTo53 == Pow2(53)
TwoTo70 == Pow2(70)
TwoTo105 == Pow2(105)

F64Zero == [m |-> << >>, e |-> 0]

\* the float nearest to (N + f) * 2^e, where N > 0 has the given number of bits,
\* 0 <= f < 1 and inexact says f > 0 (inexact only with N >= 2^53): the bits of N
\* below its leading 53 are shifted out, the last k of them together (d.r); the
\* first of these k and whether any lower bit was set decide the rounding
Round53(N, bits, e, inexact) ==
    IF bits <= 53
    THEN [m |-> BigMulBig(N, Pow2(53 - bits)), e |-> e - (53 - bits)]
    ELSE LET k    == ((bits - 54) % 17) + 1
             t    == ShiftRight(N, bits - 53 - k, inexact)
             d    == BigDivMod(t.q, 2^k)
             half == 2^(k - 1)
             up   == \/ d.r > half
                     \/ d.r = half /\ (t.inexact \/ Head(d.q) % 2 = 1)
             m    == IF up THEN BigAdd(d.q, <<1>>) ELSE d.q
         IN  IF m = TwoTo53 THEN [m |-> TwoTo52, e |-> e + bits - 52]
             ELSE [m |-> m, e |-> e + bits - 53]

\* the float nearest to (N + f) * 2^e for any N >= 0
F64Nearest(N, e, inexact) ==
    IF N = << >> THEN F64Zero ELSE Round53(N, BitLength(N), e, inexact)

\* the float of num / den for naturals num and 0 < den <= 2^17: the value of a
\* decimal literal (0.05 is 5/100), of int / int, and of an int used as a float
F64Quotient(num, den) ==
    LET d == BigDivMod(BigMulBig(FromNat(num), TwoTo70), den)
    IN  F64Nearest(d.q, -70, d.r # 0)

F64One == F64Quotient(1, 1)

\* a * b for two significands of four limbs each, column by column; the product
\* has 105 or 106 bits
SignificandProduct(a, b) ==
    LET c1 == a[1] * b[1]
        c2 == a[1] * b[2] + a[2] * b[1] + c1 \div 10000
        c3 == a[1] * b[3] + a[2] * b[2] + a[3] * b[1] + c2 \div 10000
        c4 == a[1] * b[4] + a[2] * b[3] + a[3] * b[2] + a[4] * b[1] + c3 \div 10000
        c5 == a[2] * b[4] + a[3] * b[3] + a[4] * b[2] + c4 \div 10000
        c6 == a[3] * b[4] + a[4] * b[3] + c5 \div 10000
        c7 == a[4] * b[4] + c6 \div 10000
    IN  Strip(<< c1 % 10000, c2 % 10000, c3 % 10000, c4 % 10000,
                 c5 % 10000, c6 % 10000, c7 % 10000, c7 \div 10000 >>)

\* x * y
F64Mul(x, y) ==
    IF x.m = << >> \/ y.m = << >> THEN F64Zero
    ELSE LET product == SignificandProduct(x.m, y.m)
         IN  Round53(product, IF BigCmp(product, TwoTo105) >= 0 THEN 106 ELSE 105,
                     x.e + y.e, FALSE)

\* the significand of x counted in 2^e, for e <= x.e
Aligned(x, e) == BigMulBig(x.m, Pow2(x.e - e))

Min(a, b) == IF a <= b THEN a ELSE b

\* x + y
F64Add(x, y) ==
    IF x.m = << >> THEN y
    ELSE IF y.m = << >> THEN x
    ELSE LET e == Min(x.e, y.e)
         IN  F64Nearest(BigAdd(Aligned(x, e), Aligned(y, e)), e, FALSE)

\* x - y for x >= y
F64Sub(x, y) ==
    IF y.m = << >> THEN x
    ELSE LET e == Min(x.e, y.e)
         IN  F64Nearest(BigSub(Aligned(x, e), Aligned(y, e)), e, FALSE)

\* the discounts and factors of the tables are written in hundredths
F64Hundredths(n) == F64Quotient(n, 100)

\* 1 - discount, the discount in hundredths and possibly negative (-0.25)
F64OneMinus(discount) ==
    IF discount >= 0 THEN F64Sub(F64One, F64Hundredths(discount))
    ELSE F64Add(F64One, F64Hundredths(-discount))

-----------------------------------------------------------------------------
(* Helper functions, lines 94-132.  T is the value of the rate tables. *)

\* the for loop of get_fee_size_discount over the remaining brackets
RECURSIVE ScanBrackets(_, _)
ScanBrackets(brackets, fee_income) ==
    IF brackets = << >> THEN 25
    ELSE IF ~Head(brackets).finite \/ fee_income <= Head(brackets).threshold
         THEN Head(brackets).discount
         ELSE ScanBrackets(Tail(brackets), fee_income)

\* faulty variant: the comparison of line 100 turned around (fee_income >= threshold)
RECURSIVE ScanBracketsFlipped(_, _)
ScanBracketsFlipped(brackets, fee_income) ==
    IF brackets = << >> THEN 25
    ELSE IF Head(brackets).finite /\ fee_income >= Head(brackets).threshold
         THEN Head(brackets).discount
         ELSE ScanBracketsFlipped(Tail(brackets), fee_income)

get_fee_size_discount_flipped(T, fee_income) ==
    ScanBracketsFlipped(T.FEE_SIZE_DISCOUNTS, fee_income)

\* faulty variant: bracket bounds exclusive (fee_income < threshold)
RECURSIVE ScanBracketsStrict(_, _)
ScanBracketsStrict(brackets, fee_income) ==
    IF brackets = << >> THEN 25
    ELSE IF ~Head(brackets).finite \/ fee_income < Head(brackets).threshold
         THEN Head(brackets).discount
         ELSE ScanBracketsStrict(Tail(brackets), fee_income)

get_fee_size_discount_strict(T, fee_income) ==
    ScanBracketsStrict(T.FEE_SIZE_DISCOUNTS, fee_income)

get_fee_size_discount(T, fee_income) == ScanBrackets(T.FEE_SIZE_DISCOUNTS, fee_income)

\* the element st.warning puts on the page for a limit that is not in the table
LimitWarning(limit_of_indemnity) ==
    [element |-> "warning", text |-> "not a standard limit", value |-> limit_of_indemnity]

\* faulty variant: the fallback without the st.warning of line 113
get_limit_factor_silent(T, limit_of_indemnity) ==
    IF limit_of_indemnity \in DOMAIN T.LIMIT_OF_INDEMNITY_FACTORS
    THEN [factor |-> T.LIMIT_OF_INDEMNITY_FACTORS[limit_of_indemnity], emitted |-> << >>]
    ELSE [factor |-> 100, emitted |-> << >>]

\* factor: the value returned; emitted: what the call put on the page
get_limit_factor(T, limit_of_indemnity) ==
    IF limit_of_indemnity \in DOMAIN T.LIMIT_OF_INDEMNITY_FACTORS
    THEN [factor |-> T.LIMIT_OF_INDEMNITY_FACTORS[limit_of_indemnity], emitted |-> << >>]
    ELSE [factor |-> 100, emitted |-> <<LimitWarning(limit_of_indemnity)>>]

\* faulty variant: a tie rounded up, as round() did before Python 3
RoundHalfUp(num, den) ==
    LET q == num \div den
        r == num % den
    IN  IF 2 * r < den THEN q ELSE q + 1

\* Python 3 round() of num/den (num >= 0, den > 0): to the nearest integer, a tie to
\* the even neighbour
RoundHalfEven(num, den) ==
    LET q == num \div den
        r == num % den
    IN  IF 2 * r < den THEN q
        ELSE IF 2 * r > den THEN q + 1
        ELSE IF q % 2 = 0 THEN q ELSE q + 1

Max(a, b) == IF a >= b THEN a ELSE b

\* faulty variant: line 127 left out, the raw 0.5% truncated to pounds
calculate_standard_excess_unrounded(fee_income) == Max((fee_income * 5) \div 1000, 500)

\* raw_excess = fee_income * 0.005 is fee_income * 5 / 1000, so raw_excess / 500 is
\* fee_income * 5 / 500000
calculate_standard_excess(fee_income) ==
    LET rounded_excess == RoundHalfEven(fee_income * 5, 500000) * 500
    IN  Max(rounded_excess, 500)

-----------------------------------------------------------------------------
(* The rating engine, lines 138-219.  inp is the record of its arguments. *)

\* faulty variant: the lookup of line 160 made before the test of line 159
UnknownDisciplinesUnguarded(T, inp) ==
    { d \in DOMAIN inp.discipline_percentages : d \notin DOMAIN T.ARCHITECT_DISCIPLINES }

\* the disciplines whose lookup ARCHITECT_DISCIPLINES[discipline] raises KeyError in
\* the loop of step 2: the lookup happens only under `if percentage > 0`
UnknownDisciplines(T, inp) ==
    { d \in DOMAIN inp.discipline_percentages :
        /\ inp.discipline_percentages[d] > 0
        /\ d \notin DOMAIN T.ARCHITECT_DISCIPLINES }

\* the table whose subscript raises KeyError first, in the order of the steps, or "none"
FirstKeyError(T, inp) ==
    IF UnknownDisciplines(T, inp) # {} THEN "ARCHITECT_DISCIPLINES"
    ELSE IF inp.no_claims_period \notin DOMAIN T.NO_CLAIMS_DISCOUNTS
         THEN "NO_CLAIMS_DISCOUNTS"
    ELSE IF inp.retroactive_coverage \notin DOMAIN T.RETROACTIVE_DISCOUNTS
         THEN "RETROACTIVE_DISCOUNTS"
    ELSE IF inp.excess_multiplier \notin DOMAIN T.EXCESS_MULTIPLIERS
         THEN "EXCESS_MULTIPLIERS"
    ELSE IF inp.aggregate_excess_option \notin DOMAIN T.AGGREGATE_EXCESS_OPTIONS
         THEN "AGGREGATE_EXCESS_OPTIONS"
    ELSE "none"

\* the loop of step 2 over the entries ds of the dict, in 1/10^4
RECURSIVE DisciplineLoop(_, _, _)
DisciplineLoop(T, percentages, ds) ==
    IF ds = {} THEN 0
    ELSE LET discipline == CHOOSE d \in ds : TRUE
             percentage == percentages[discipline]
         IN  (IF percentage > 0
              THEN T.ARCHITECT_DISCIPLINES[discipline] * percentage
              ELSE 0)
             + DisciplineLoop(T, percentages, ds \ {discipline})

\* faulty variant: the weighted sum divided by the total of the percentages, a true
\* weighted average whatever the total
total_discipline_factor_normalised(T, inp) ==
    LET percentages == inp.discipline_percentages
        weighted    == DisciplineLoop(T, percentages, DOMAIN percentages)
        positive    == { d \in DOMAIN percentages : percentages[d] > 0 }
        total       == DisciplineLoop([ARCHITECT_DISCIPLINES |-> [d \in positive |-> 1]],
                                      percentages, positive)
    IN  IF total = 0 THEN 0 ELSE (weighted * 100) \div total

total_discipline_factor(T, inp) ==
    DisciplineLoop(T, inp.discipline_percentages, DOMAIN inp.discipline_percentages)

\* Steps 1 to 9, lines 153-190: each takes the premium of the step before it
base_premium(T, inp) == BigMul(FromNat(inp.fee_income), T.ARCHITECT_BASE_RATE)

premium_after_disciplines(T, inp, premium) ==
    BigMul(premium, total_discipline_factor(T, inp))

premium_after_fee_discount(T, inp, premium) ==
    BigMul(premium, 100 - get_fee_size_discount(T, inp.fee_income))

premium_after_limit(T, inp, premium) ==
    BigMul(premium, get_limit_factor(T, inp.limit_of_indemnity).factor)

\* faulty variant: step 5 passes the premium on without the discount
premium_after_no_claims_skipped(T, inp, premium) == BigMul(premium, 100)

premium_after_no_claims(T, inp, premium) ==
    BigMul(premium, 100 - T.NO_CLAIMS_DISCOUNTS[inp.no_claims_period])

\* faulty variant: the retroactive discount added to the no-claims discount and the
\* sum taken off the premium of step 4 once
premium_after_retro_summed(T, inp, premium) ==
    LET p2 == premium_after_disciplines(T, inp, base_premium(T, inp))
        p4 == premium_after_limit(T, inp, premium_after_fee_discount(T, inp, p2))
    IN  BigMul(BigMul(p4, 100 - T.NO_CLAIMS_DISCOUNTS[inp.no_claims_period]
                              - T.RETROACTIVE_DISCOUNTS[inp.retroactive_coverage]),
               100)

premium_after_retro(T, inp, premium) ==
    BigMul(premium, 100 - T.RETROACTIVE_DISCOUNTS[inp.retroactive_coverage])

premium_after_excess(T, inp, premium) ==
    BigMul(premium, 100 - T.EXCESS_MULTIPLIERS[inp.excess_multiplier])

premium_after_agg_excess(T, inp, premium) ==
    BigMul(premium, 100 - T.AGGREGATE_EXCESS_OPTIONS[inp.aggregate_excess_option])

final_premium(T, inp, premium) ==
    BigMul(premium, inp.underwriter_discretion_factor)

\* line 194, in 10^-2: standard_excess * excess_multiplier
actual_excess(standard_excess, inp) == standard_excess * inp.excess_multiplier

\* the body of the engine when no lookup raises, and the dict of lines 197-219
ResultDict(T, inp) ==
    LET p1 == base_premium(T, inp)
        p2 == premium_after_disciplines(T, inp, p1)
        p3 == premium_after_fee_discount(T, inp, p2)
        p4 == premium_after_limit(T, inp, p3)
        p5 == premium_after_no_claims(T, inp, p4)
        p6 == premium_after_retro(T, inp, p5)
        p7 == premium_after_excess(T, inp, p6)
        p8 == premium_after_agg_excess(T, inp, p7)
        p9 == final_premium(T, inp, p8)
        standard_excess == calculate_standard_excess(inp.fee_income)
    IN
    [ fee_income                    |-> inp.fee_income,
      base_premium                  |-> p1,
      discipline_factor             |-> total_discipline_factor(T, inp),
      premium_after_disciplines     |-> p2,
      fee_size_discount             |-> get_fee_size_discount(T, inp.fee_income),
      premium_after_fee_discount    |-> p3,
      limit_factor                  |-> get_limit_factor(T, inp.limit_of_indemnity).factor,
      premium_after_limit           |-> p4,
      no_claims_discount            |-> T.NO_CLAIMS_DISCOUNTS[inp.no_claims_period],
      premium_after_no_claims       |-> p5,
      retroactive_discount          |-> T.RETROACTIVE_DISCOUNTS[inp.retroactive_coverage],
      premium_after_retro           |-> p6,
      excess_discount               |-> T.EXCESS_MULTIPLIERS[inp.excess_multiplier],
      premium_after_excess          |-> p7,
      aggregate_excess_discount     |-> T.AGGREGATE_EXCESS_OPTIONS[inp.aggregate_excess_option],
      premium_after_agg_excess      |-> p8,
      underwriter_discretion_factor |-> inp.underwriter_discretion_factor,
      final_premium                 |-> p9,
      standard_excess               |-> standard_excess,
      actual_excess                 |-> actual_excess(standard_excess, inp),
      limit_of_indemnity            |-> inp.limit_of_indemnity ]

\* What one call does: status "ok" with the returned dict, or status "KeyError" with
\* the table whose subscript raised; emitted is what the call put on the page before
\* it ended (get_limit_factor runs in step 4, after the discipline loop and before the
\* lookups of steps 5 to 8).
calculate_architect_premium(T, inp) ==
    LET err == FirstKeyError(T, inp)
    IN  IF err = "none"
        THEN [status  |-> "ok",
              result  |-> ResultDict(T, inp),
              emitted |-> get_limit_factor(T, inp.limit_of_indemnity).emitted]
        ELSE [status  |-> "KeyError",
              table   |-> err,
              emitted |-> IF err = "ARCHITECT_DISCIPLINES" THEN << >>
                          ELSE get_limit_factor(T, inp.limit_of_indemnity).emitted]

-----------------------------------------------------------------------------
(* The premiums of steps 1 to 9 as the floats the program computes.  The    *)
(* loop of step 2 adds in the order of the dict; a sum of at most two       *)
(* floats does not depend on that order.                                    *)

base_premium_f64(T, inp) ==
    F64Mul(F64Quotient(inp.fee_income, 1), F64Hundredths(T.ARCHITECT_BASE_RATE))

\* the loop of step 2 over the entries ds still to come, total the sum so far
RECURSIVE DisciplineLoop_f64(_, _, _, _)
DisciplineLoop_f64(T, percentages, ds, total) ==
    IF ds = {} THEN total
    ELSE LET discipline == CHOOSE d \in ds : TRUE
             percentage == percentages[discipline]
             factor     == F64Hundredths(T.ARCHITECT_DISCIPLINES[discipline])
         IN  DisciplineLoop_f64(T, percentages, ds \ {discipline},
                 IF percentage > 0
                 THEN F64Add(total, F64Mul(factor, F64Quotient(percentage, 100)))
                 ELSE total)

total_discipline_factor_f64(T, inp) ==
    DisciplineLoop_f64(T, inp.discipline_percentages, DOMAIN inp.discipline_percentages,
                       F64Zero)

premium_after_disciplines_f64(T, inp, premium) ==
    F64Mul(premium, total_discipline_factor_f64(T, inp))

\* what steps 3 to 8 multiply the premium by, in the order of the steps:
\* (1 - fee_discount), limit_factor, (1 - no_claims_discount), (1 - retro_discount),
\* (1 - excess_discount), (1 - agg_excess_discount)
StepFactors_f64(T, inp) ==
    << F64OneMinus(get_fee_size_discount(T, inp.fee_income)),
       F64Hundredths(get_limit_factor(T, inp.limit_of_indemnity).factor),
       F64OneMinus(T.NO_CLAIMS_DISCOUNTS[inp.no_claims_period]),
       F64OneMinus(T.RETROACTIVE_DISCOUNTS[inp.retroactive_coverage]),
       F64OneMinus(T.EXCESS_MULTIPLIERS[inp.excess_multiplier]),
       F64OneMinus(T.AGGREGATE_EXCESS_OPTIONS[inp.aggregate_excess_option]) >>

\* the floats one call multiplies from step 3 on: the premium step 2 hands over, the
\* factors of steps 3 to 8, and the underwriter's factor of step 9
Operands_f64(T, inp) ==
    [ premium_after_disciplines     |->
          premium_after_disciplines_f64(T, inp, base_premium_f64(T, inp)),
      factors                       |-> StepFactors_f64(T, inp),
      underwriter_discretion_factor |-> F64Hundredths(inp.underwriter_discretion_factor) ]

-----------------------------------------------------------------------------
(* Steps 3 to 8 taken in a given order.  An order is a sequence of the step *)
(* numbers; the program's is CodedOrder.                                    *)

CodedOrder == <<3, 4, 5, 6, 7, 8>>

Step(k, T, inp, premium) ==
    CASE k = 3 -> premium_after_fee_discount(T, inp, premium)
      [] k = 4 -> premium_after_limit(T, inp, premium)
      [] k = 5 -> premium_after_no_claims(T, inp, premium)
      [] k = 6 -> premium_after_retro(T, inp, premium)
      [] k = 7 -> premium_after_excess(T, inp, premium)
      [] k = 8 -> premium_after_agg_excess(T, inp, premium)

RECURSIVE ApplySteps(_, _, _, _)
ApplySteps(order, T, inp, premium) ==
    IF order = << >> THEN premium
    ELSE ApplySteps(Tail(order), T, inp, Step(Head(order), T, inp, premium))

\* final_premium, in 10^-20, when steps 3 to 8 run in the given order on the
\* premium of step 2
Pipeline(T, inp, order, premium) ==
    final_premium(T, inp, ApplySteps(order, T, inp, premium))

\* the premium after the steps of order, each step k multiplying by its factor
RECURSIVE ApplySteps_f64(_, _, _)
ApplySteps_f64(order, factors, premium) ==
    IF order = << >> THEN premium
    ELSE ApplySteps_f64(Tail(order), factors, F64Mul(premium, factors[Head(order) - 2]))

\* final_premium as the float the program returns when it multiplies the operands
\* ops with steps 3 to 8 in the given order
Pipeline_f64(ops, order) ==
    F64Mul(ApplySteps_f64(order, ops.factors, ops.premium_after_disciplines),
           ops.underwriter_discretion_factor)

-----------------------------------------------------------------------------
(* The arguments of a direct call of the engine *)

\* the baseline scenario; its last six fields are the defaults of lines 139-144
Baseline ==
    [ fee_income                    |-> 250000,
      discipline_percentages        |-> (NewBuild :> 100),
      limit_of_indemnity            |-> 1000000,
      no_claims_period              |-> "0-3 years",
      retroactive_coverage          |-> "2+ years coverage",
      excess_multiplier             |-> 100,
      aggregate_excess_option       |-> "standard",
      underwriter_discretion_factor |-> 100 ]

UnknownDiscipline == "Structural Engineering"

\* fee incomes of the engine calls: both sides of two bracket bounds, ties of the
\* rounding of the excess (50000, 150000, 250000), nothing, and the top bracket
Fees == {0, 50000, 100000, 100001, 150000, 250000, 1000000, 1000001}

ArgSlots ==
    { "fee_income", "limit_of_indemnity", "no_claims_period", "retroactive_coverage",
      "excess_multiplier", "aggregate_excess_option", "underwriter_discretion_factor" }

DropNewBuild == "del discipline_percentages[New Build]"

\* what a caller may change: an argument, the entry of one discipline, or no entry at
\* all for New Build
Slots == ArgSlots \cup DOMAIN ARCHITECT_DISCIPLINES \cup {UnknownDiscipline, DropNewBuild}

\* the values a caller may put there: every key of each table and one value outside it
SlotValues(slot) ==
    CASE slot = "fee_income"                    -> Fees
      [] slot = "limit_of_indemnity"            -> DOMAIN LIMIT_OF_INDEMNITY_FACTORS \cup {1500000}
      [] slot = "no_claims_period"              -> DOMAIN NO_CLAIMS_DISCOUNTS \cup {"1-2 years"}
      [] slot = "retroactive_coverage"          -> DOMAIN RETROACTIVE_DISCOUNTS \cup {"None"}
      [] slot = "excess_multiplier"             -> DOMAIN EXCESS_MULTIPLIERS \cup {150}
      [] slot = "aggregate_excess_option"       -> DOMAIN AGGREGATE_EXCESS_OPTIONS \cup {"none"}
      [] slot = "underwriter_discretion_factor" -> {50, 100, 105}
      [] slot = DropNewBuild                    -> {0, 1}
      [] slot = NewBuild                        -> {0, 90, 100}
      [] slot = UnknownDiscipline               -> {-5, 0, 10}
      [] OTHER                                  -> {0, 10, 100}

WithSlot(inp, slot, v) ==
    IF slot \in ArgSlots THEN [inp EXCEPT ![slot] = v]
    ELSE IF slot = DropNewBuild
         THEN IF v = 0 THEN inp
              ELSE [inp EXCEPT !.discipline_percentages =
                        [d \in DOMAIN @ \ {NewBuild} |-> @[d]]]
    ELSE [inp EXCEPT !.discipline_percentages = (slot :> v) @@ @]

\* one change a caller makes to the baseline scenario, or none
OverrideChoices ==
    {<<"none", 0>>} \cup UNION { { <<slot, v>> : v \in SlotValues(slot) } : slot \in Slots }

\* inp after the changes q[i], q[i+1], ... in turn
RECURSIVE WithOverrides(_, _, _)
WithOverrides(inp, q, i) ==
    IF i > Len(q) THEN inp
    ELSE WithOverrides(IF q[i][1] = "none" THEN inp ELSE WithSlot(inp, q[i][1], q[i][2]),
                       q, i + 1)

\* the baseline scenario with at most MaxOverrides changes
Inputs == { WithOverrides(Baseline, q, 1) : q \in [1..MaxOverrides -> OverrideChoices] }

\* the inputs of the calls whose results are compared across a run
ProbeInputs ==
    { [Baseline EXCEPT !.limit_of_indemnity = l, !.no_claims_period = n] :
        l \in SlotValues("limit_of_indemnity"), n \in SlotValues("no_claims_period") }

-----------------------------------------------------------------------------
(* State machine of a program that imports the module and calls the engine *)

NoCall == [none |-> TRUE]
NoOutcome == [status |-> "none"]

\* the widgets of main before any edit: the value= and index= arguments of lines 247-369
DefaultWidgets ==
    [ fee_income                    |-> 250000,
      discipline_percentages        |-> [d \in DOMAIN ARCHITECT_DISCIPLINES |-> 0],
      limit_of_indemnity            |-> 1000000,
      no_claims_period              |-> "0-3 years",
      retroactive_coverage          |-> "2+ years coverage",
      excess_multiplier             |-> 100,
      aggregate_excess_option       |-> "standard",
      underwriter_discretion_factor |-> 100 ]

Init ==
    /\ tables = RateTables
    /\ pc = "idle"
    /\ call = NoCall
    /\ outcome = NoOutcome
    /\ emitted = << >>
    /\ ref = NoCall
    /\ widgets = DefaultWidgets
    /\ edits = 0
    /\ button = FALSE
    /\ total_percentage = 0
    /\ rendered = "none"

uiVars == <<widgets, edits, button, total_percentage, rendered>>

\* what the caller holds after the call: the returned dict, or the exception
Held(o) ==
    IF o.status = "ok" THEN [status |-> "ok", result |-> o.result]
    ELSE [status |-> o.status, table |-> o.table]

\* faulty variant: the engine remembers the factor it substituted for a limit that is
\* not in the table, by adding the limit to LIMIT_OF_INDEMNITY_FACTORS
InvokeCaching(inp) ==
    /\ pc = "idle"
    /\ LET o == calculate_architect_premium(tables, inp)
       IN  /\ outcome' = Held(o)
           /\ emitted' = o.emitted
           /\ tables' = IF o.emitted = << >> THEN tables
                        ELSE [tables EXCEPT !.LIMIT_OF_INDEMNITY_FACTORS =
                                 (inp.limit_of_indemnity :> 100) @@ @]
    /\ call' = inp
    /\ pc' = "done"
    /\ UNCHANGED <<ref, uiVars>>

\* one call calculate_architect_premium(**inp), lines 138-219
Invoke(inp) ==
    /\ pc = "idle"
    /\ LET o == calculate_architect_premium(tables, inp)
       IN  /\ outcome' = Held(o)
           /\ emitted' = o.emitted
    /\ call' = inp
    /\ pc' = "done"
    /\ UNCHANGED <<tables, ref, uiVars>>

\* the caller drops what it got and is ready for the next call
Return ==
    /\ pc = "done"
    /\ pc' = "idle"
    /\ call' = NoCall
    /\ outcome' = NoOutcome
    /\ emitted' = << >>
    /\ UNCHANGED <<tables, ref, uiVars>>

\* observer: the caller keeps the call just made, to compare later calls with it
Remember ==
    /\ pc = "done"
    /\ ref' = [call |-> call, outcome |-> outcome, emitted |-> emitted]
    /\ UNCHANGED <<tables, pc, call, outcome, emitted, uiVars>>

Call == pc = "idle" /\ \E inp \in Inputs : Invoke(inp)

Next == Call \/ Return

Spec == Init /\ [][Next]_vars

CallProbe == pc = "idle" /\ \E inp \in ProbeInputs : Invoke(inp)

NextRepeat == CallProbe \/ Remember \/ Return

SpecRepeat == Init /\ [][NextRepeat]_vars

\* a fee income in each bracket of FEE_SIZE_DISCOUNTS
BracketFees == {50000, 150000, 250000, 400000, 600000, 800000, 2000000}

\* a limit whose factor is 1.00 and one whose factor is not
OrderLimits == {1000000, 4000000}

\* a call with no fee income, a retroactive and an excess discount: every premium
\* of it is zero
ZeroFeeCall ==
    [Baseline EXCEPT !.fee_income = 0, !.retroactive_coverage = "Inception",
                     !.excess_multiplier = 75]

\* the calls on which the order of steps 3 to 8 is examined: the baseline scenario
\* with every combination of the discounts of steps 3 and 5 to 8, and ZeroFeeCall
OrderInputs ==
    { [Baseline EXCEPT !.fee_income = f, !.limit_of_indemnity = l,
                       !.no_claims_period = n, !.retroactive_coverage = c,
                       !.excess_multiplier = x, !.aggregate_excess_option = a] :
        f \in BracketFees, l \in OrderLimits, n \in DOMAIN NO_CLAIMS_DISCOUNTS,
        c \in DOMAIN RETROACTIVE_DISCOUNTS, x \in DOMAIN EXCESS_MULTIPLIERS,
        a \in DOMAIN AGGREGATE_EXCESS_OPTIONS }
      \cup {ZeroFeeCall}

CallRated == pc = "idle" /\ \E inp \in OrderInputs : Invoke(inp)

NextOrder == CallRated \/ Return

SpecOrder == Init /\ [][NextOrder]_vars

-----------------------------------------------------------------------------
(* The helper functions applied on their own to one fee income *)

\* the grid of fee incomes, and the first income above each finite bracket bound
HelperFees ==
    { k * 12500 : k \in 0..MaxFeeSteps }
      \cup { FEE_SIZE_DISCOUNTS[i].threshold + 1 :
               i \in { j \in DOMAIN FEE_SIZE_DISCOUNTS : FEE_SIZE_DISCOUNTS[j].finite } }

InitHelpers ==
    /\ tables = RateTables
    /\ pc = "idle"
    /\ call \in { [fee_income |-> f] : f \in HelperFees }
    /\ outcome = NoOutcome
    /\ emitted = << >>
    /\ ref = NoCall
    /\ widgets = DefaultWidgets
    /\ edits = 0
    /\ button = FALSE
    /\ total_percentage = 0
    /\ rendered = "none"

ApplyFeeSizeDiscount ==
    /\ pc = "idle"
    /\ outcome' = [status |-> "ok", function |-> "get_fee_size_discount",
                   value |-> get_fee_size_discount(tables, call.fee_income)]
    /\ pc' = "done"
    /\ UNCHANGED <<tables, call, emitted, ref, uiVars>>

ApplyStandardExcess ==
    /\ pc = "idle"
    /\ outcome' = [status |-> "ok", function |-> "calculate_standard_excess",
                   value |-> calculate_standard_excess(call.fee_income)]
    /\ pc' = "done"
    /\ UNCHANGED <<tables, call, emitted, ref, uiVars>>

NextHelpers == ApplyFeeSizeDiscount \/ ApplyStandardExcess

SpecHelpers == InitHelpers /\ [][NextHelpers]_vars

-----------------------------------------------------------------------------
(* The Streamlit script main, lines 225-445: every interaction runs it again *)
(* from the top with the widgets' current values.                           *)

\* total_percentage as the two loops of lines 299-325 accumulate it
RECURSIVE SumPercentages(_, _)
SumPercentages(percentages, ds) ==
    IF ds = {} THEN 0
    ELSE LET discipline == CHOOSE d \in ds : TRUE
         IN  percentages[discipline] + SumPercentages(percentages, ds \ {discipline})

\* faulty variant: any total of at least 100 accepted
TotalAtLeast100(total) == total >= 100

\* line 375: if total_percentage == 100.0
TotalAccepted(total) == total = 100

TotalWarning(total) ==
    [element |-> "warning", text |-> "Total percentage should equal 100%", value |-> total]

\* one run of the script: pressed is what st.button returns in it
main(T, w, pressed) ==
    LET total    == SumPercentages(w.discipline_percentages, DOMAIN T.ARCHITECT_DISCIPLINES)
        warned   == IF total # 100 THEN <<TotalWarning(total)>> ELSE << >>
        accepted == pressed /\ TotalAccepted(total)
        o        == calculate_architect_premium(T, w)
    IN  [ total_percentage |-> total,
          outcome  |-> IF accepted THEN Held(o) ELSE NoOutcome,
          emitted  |-> IF ~pressed THEN warned
                       ELSE IF accepted
                            THEN warned \o o.emitted \o <<[element |-> "success"]>>
                            ELSE warned \o <<[element |-> "error"]>>,
          rendered |-> IF ~pressed THEN "none"
                       ELSE IF accepted THEN "result" ELSE "error" ]

\* the values a user may give a widget: the options of each selectbox, the bounds and
\* the default of each number_input
WidgetValues(slot) ==
    CASE slot = "fee_income"                    -> {1000, 250000, 10000000}
      [] slot = "limit_of_indemnity"            -> DOMAIN LIMIT_OF_INDEMNITY_FACTORS
      [] slot = "no_claims_period"              -> DOMAIN NO_CLAIMS_DISCOUNTS
      [] slot = "retroactive_coverage"          -> DOMAIN RETROACTIVE_DISCOUNTS
      [] slot = "excess_multiplier"             -> DOMAIN EXCESS_MULTIPLIERS
      [] slot = "aggregate_excess_option"       -> DOMAIN AGGREGATE_EXCESS_OPTIONS
      [] slot = "underwriter_discretion_factor" -> {10, 100, 1000}
      [] OTHER                                  -> {0, 50, 100}

WidgetSlots == ArgSlots \cup DOMAIN ARCHITECT_DISCIPLINES

WidgetValue(w, slot) ==
    IF slot \in ArgSlots THEN w[slot] ELSE w.discipline_percentages[slot]

\* the page after the script has run with widgets w
Ran(w, pressed) ==
    LET run == main(tables, w, pressed)
    IN  /\ widgets' = w
        /\ button' = pressed
        /\ total_percentage' = run.total_percentage
        /\ call' = IF run.outcome = NoOutcome THEN NoCall ELSE w
        /\ outcome' = run.outcome
        /\ emitted' = run.emitted
        /\ rendered' = run.rendered
        /\ UNCHANGED <<tables, pc, ref>>

InitUI ==
    /\ tables = RateTables
    /\ pc = "idle"
    /\ call = NoCall
    /\ outcome = NoOutcome
    /\ emitted = <<TotalWarning(0)>>
    /\ ref = NoCall
    /\ widgets = DefaultWidgets
    /\ edits = 0
    /\ button = FALSE
    /\ total_percentage = 0
    /\ rendered = "none"

\* the user changes one widget
Edit ==
    /\ edits < MaxEdits
    /\ edits' = edits + 1
    /\ \E slot \in WidgetSlots :
         \E v \in WidgetValues(slot) \ {WidgetValue(widgets, slot)} :
            Ran(WithSlot(widgets, slot, v), FALSE)

\* the user presses "Calculate Premium"
Press ==
    /\ edits' = edits
    /\ Ran(widgets, TRUE)

NextUI == Edit \/ Press

SpecUI == InitUI /\ [][NextUI]_vars

-----------------------------------------------------------------------------
(* Properties *)

\* the sum of f[x] over the x in S
RECURSIVE Sum(_, _)
Sum(f, S) ==
    IF S = {} THEN 0
    ELSE LET x == CHOOSE y \in S : TRUE IN f[x] + Sum(f, S \ {x})

\* a direct call of the engine has ended, with a dict or with an exception
Done == pc = "done" /\ outcome.status \in {"ok", "KeyError"}

\* every key of the input is a key of its table
AllKeysKnown(inp) ==
    /\ DOMAIN inp.discipline_percentages \subseteq DOMAIN ARCHITECT_DISCIPLINES
    /\ inp.limit_of_indemnity \in DOMAIN LIMIT_OF_INDEMNITY_FACTORS
    /\ inp.no_claims_period \in DOMAIN NO_CLAIMS_DISCOUNTS
    /\ inp.retroactive_coverage \in DOMAIN RETROACTIVE_DISCOUNTS
    /\ inp.excess_multiplier \in DOMAIN EXCESS_MULTIPLIERS
    /\ inp.aggregate_excess_option \in DOMAIN AGGREGATE_EXCESS_OPTIONS

\* sum of ARCHITECT_DISCIPLINES[d] x pct over the disciplines with pct > 0, in 1/10^4
WeightedFactor(inp) ==
    LET positive == { d \in DOMAIN inp.discipline_percentages :
                        inp.discipline_percentages[d] > 0 }
    IN  Sum([d \in positive |-> ARCHITECT_DISCIPLINES[d] * inp.discipline_percentages[d]],
            positive)

\* the total of the percentages of the input
PercentTotal(inp) == Sum(inp.discipline_percentages, DOMAIN inp.discipline_percentages)

\* C1: for every input whose keys are all in the tables the engine returns a result in
\* which base_premium = fee_income x 0.01, discipline_factor is the sum of
\* ARCHITECT_DISCIPLINES[d] x pct/100 over the disciplines with pct > 0, and each later
\* premium is the premium of the step before it times that step's factor, in the order
\* disciplines, fee-size discount, limit factor, no-claims, retroactive, excess,
\* aggregate excess, underwriter discretion.
C1_PipelineChain ==
    (Done /\ AllKeysKnown(call)) =>
        /\ outcome.status = "ok"
        /\ LET r == outcome.result
           IN  /\ r.base_premium = Pounds(call.fee_income, 0)
               /\ r.discipline_factor = WeightedFactor(call)
               /\ r.premium_after_disciplines = BigMul(r.base_premium, r.discipline_factor)
               /\ r.premium_after_fee_discount =
                      BigMul(r.premium_after_disciplines, 100 - r.fee_size_discount)
               /\ r.premium_after_limit =
                      BigMul(r.premium_after_fee_discount, r.limit_factor)
               /\ r.premium_after_no_claims =
                      BigMul(r.premium_after_limit, 100 - r.no_claims_discount)
               /\ r.premium_after_retro =
                      BigMul(r.premium_after_no_claims, 100 - r.retroactive_discount)
               /\ r.premium_after_excess =
                      BigMul(r.premium_after_retro, 100 - r.excess_discount)
               /\ r.premium_after_agg_excess =
                      BigMul(r.premium_after_excess, 100 - r.aggregate_excess_discount)
               /\ r.final_premium =
                      BigMul(r.premium_after_agg_excess, r.underwriter_discretion_factor)
               /\ r.no_claims_discount = NO_CLAIMS_DISCOUNTS[call.no_claims_period]
               /\ r.retroactive_discount = RETROACTIVE_DISCOUNTS[call.retroactive_coverage]
               /\ r.excess_discount = EXCESS_MULTIPLIERS[call.excess_multiplier]
               /\ r.aggregate_excess_discount =
                      AGGREGATE_EXCESS_OPTIONS[call.aggregate_excess_option]
               /\ r.limit_factor = LIMIT_OF_INDEMNITY_FACTORS[call.limit_of_indemnity]
               /\ r.underwriter_discretion_factor = call.underwriter_discretion_factor

\* a call at a 2,000,000 limit with 10+ claim-free years: 2,500 x 2.0 x 0.90 x 1.30 x 0.70
C1_Witness ==
    /\ Done
    /\ AllKeysKnown(call)
    /\ call.limit_of_indemnity = 2000000
    /\ call.no_claims_period = "10+ years"
    /\ outcome.status = "ok"
    /\ outcome.result.final_premium = Pounds(4095, 20)

\* C2 as amended: in the baseline scenario discipline_factor = 2.0, base_premium =
\* 2,500, premium_after_disciplines = 5,000, fee_size_discount = 0.10 (250,000 lies in
\* the bracket up to 300,000), premium_after_fee_discount = 4,500, final_premium = 4,500.
C2_Baseline ==
    (Done /\ call = Baseline) =>
        /\ outcome.status = "ok"
        /\ outcome.result.discipline_factor = 20000
        /\ outcome.result.base_premium = Pounds(2500, 2)
        /\ outcome.result.premium_after_disciplines = Pounds(5000, 6)
        /\ outcome.result.fee_size_discount = 10
        /\ outcome.result.premium_after_fee_discount = Pounds(4500, 8)
        /\ outcome.result.final_premium = Pounds(4500, 20)

C2_Witness == Done /\ call = Baseline /\ outcome.status = "ok"

\* C2 as stated: the baseline scenario yields fee_size_discount = 0.05,
\* premium_after_fee_discount = 4,750 and final_premium = 4,750.
C2_Original ==
    (Done /\ call = Baseline) =>
        /\ outcome.status = "ok"
        /\ outcome.result.discipline_factor = 20000
        /\ outcome.result.base_premium = Pounds(2500, 2)
        /\ outcome.result.premium_after_disciplines = Pounds(5000, 6)
        /\ outcome.result.fee_size_discount = 5
        /\ outcome.result.premium_after_fee_discount = Pounds(4750, 8)
        /\ outcome.result.final_premium = Pounds(4750, 20)

\* C3 as amended: the engine does not check the total of the percentages; for an input
\* whose keys are all in the tables and whose percentages do not sum to 100 it returns
\* a result, computed from the sum of factor x pct/100 as it stands (1.8 for New Build
\* at 90%).
C3_TotalNotChecked ==
    (Done /\ AllKeysKnown(call) /\ PercentTotal(call) # 100) =>
        /\ outcome.status = "ok"
        /\ outcome.result.discipline_factor = WeightedFactor(call)
        /\ outcome.result.premium_after_disciplines =
               BigMul(FromNat(call.fee_income), WeightedFactor(call))

C3_Witness ==
    /\ Done
    /\ call.discipline_percentages = (NewBuild :> 90)
    /\ outcome.status = "ok"
    /\ outcome.result.discipline_factor = 18000

\* C3 as stated: the engine returns no result for an input whose percentages do not sum
\* to exactly 100.
C3_Original == (Done /\ PercentTotal(call) # 100) => outcome.status # "ok"

\* C4: in the UI flow the engine is invoked and a result rendered only by a run of the
\* script in which the button was pressed and the accumulated total of the 17
\* percentages is exactly 100; a press at any other total shows the error and does not
\* invoke the engine.
C4_InvokedOnlyAtTotal100 ==
    /\ total_percentage = Sum(widgets.discipline_percentages, DOMAIN ARCHITECT_DISCIPLINES)
    /\ (outcome # NoOutcome) <=> (button /\ total_percentage = 100)
    /\ (rendered = "result") <=> (button /\ total_percentage = 100)
    /\ (button /\ total_percentage # 100) =>
           /\ rendered = "error"
           /\ [element |-> "error"] \in { emitted[i] : i \in DOMAIN emitted }
           /\ outcome = NoOutcome
           /\ call = NoCall
    /\ (outcome # NoOutcome) => (call = widgets /\ outcome.status = "ok")

\* a press after two edits that put 50% on each of two disciplines
C4_Witness ==
    /\ button
    /\ edits = 2
    /\ Cardinality({ d \in DOMAIN ARCHITECT_DISCIPLINES :
                       widgets.discipline_percentages[d] = 50 }) = 2
    /\ rendered = "result"
    /\ outcome.status = "ok"

\* the discount of the first bracket, in ascending order, whose upper bound is >= f
FirstBracketDiscount(f) ==
    LET covering == { i \in DOMAIN FEE_SIZE_DISCOUNTS :
                        ~FEE_SIZE_DISCOUNTS[i].finite \/ f <= FEE_SIZE_DISCOUNTS[i].threshold }
        first    == CHOOSE i \in covering : \A j \in covering : i <= j
    IN  FEE_SIZE_DISCOUNTS[first].discount

\* C5: for every fee income f >= 0, get_fee_size_discount(f) is the discount of the first
\* bracket of FEE_SIZE_DISCOUNTS whose upper bound is >= f (bounds inclusive), lies in
\* [0, 0.25], and is not below the discount of any smaller fee income.
C5_FeeSizeDiscount ==
    (pc = "done" /\ outcome.function = "get_fee_size_discount" /\ call.fee_income >= 0) =>
        /\ outcome.value = FirstBracketDiscount(call.fee_income)
        /\ outcome.value >= 0
        /\ outcome.value <= 25
        /\ \A g \in HelperFees :
              (0 <= g /\ g <= call.fee_income) =>
                  get_fee_size_discount(tables, g) <= outcome.value

\* the inclusive bound of the second bracket
C5_Witness ==
    /\ pc = "done"
    /\ outcome.function = "get_fee_size_discount"
    /\ call.fee_income = 200000
    /\ outcome.value = 5

\* C6: for every fee income f >= 0, calculate_standard_excess(f) is at least 500 and an
\* exact multiple of 500.
C6_StandardExcess ==
    (pc = "done" /\ outcome.function = "calculate_standard_excess" /\ call.fee_income >= 0) =>
        /\ outcome.value >= 500
        /\ outcome.value % 500 = 0

\* 0.5% of 337,500 is 1,687.50, which rounds to 1,500
C6_Witness ==
    /\ pc = "done"
    /\ outcome.function = "calculate_standard_excess"
    /\ call.fee_income = 337500
    /\ outcome.value = 1500

\* C7 as amended: for fee_income = 250,000 the engine reports standard_excess = 1,000
\* (1,250 / 500 = 2.5 is a tie, which round() resolves to the even 2) and actual_excess =
\* standard_excess x excess_multiplier: 1,000 at multiplier 1.00 and 500 at 0.50.
C7_ExcessAt250000 ==
    (Done /\ outcome.status = "ok" /\ call.fee_income = 250000) =>
        /\ outcome.result.standard_excess = 1000
        /\ outcome.result.actual_excess =
               outcome.result.standard_excess * call.excess_multiplier
        /\ call.excess_multiplier = 100 => outcome.result.actual_excess = 1000 * 100
        /\ call.excess_multiplier = 50 => outcome.result.actual_excess = 500 * 100

C7_Witness ==
    /\ Done
    /\ outcome.status = "ok"
    /\ call.fee_income = 250000
    /\ call.excess_multiplier = 50
    /\ outcome.result.actual_excess = 500 * 100

\* C7 as stated: for fee_income = 250,000 standard_excess = 1,250, actual_excess = 1,250
\* at multiplier 1.00 and 625 at multiplier 0.50.
C7_Original ==
    (Done /\ outcome.status = "ok" /\ call.fee_income = 250000) =>
        /\ outcome.result.standard_excess = 1250
        /\ call.excess_multiplier = 100 => outcome.result.actual_excess = 1250 * 100
        /\ call.excess_multiplier = 50 => outcome.result.actual_excess = 625 * 100

\* a tier, multiplier or option of the input is not a key of its schedule
UnknownTier(inp) ==
    \/ inp.no_claims_period \notin DOMAIN NO_CLAIMS_DISCOUNTS
    \/ inp.retroactive_coverage \notin DOMAIN RETROACTIVE_DISCOUNTS
    \/ inp.excess_multiplier \notin DOMAIN EXCESS_MULTIPLIERS
    \/ inp.aggregate_excess_option \notin DOMAIN AGGREGATE_EXCESS_OPTIONS

\* C8 as amended: the engine ends with a KeyError, returning no result, exactly when the
\* input has a no-claims tier, retroactive tier, excess multiplier or aggregate-excess
\* option that is not a key of its schedule, or a discipline outside the 17 with a
\* percentage above 0; a discipline outside the 17 with a percentage of 0 is skipped
\* and the call returns a result.
C8_KeyErrors ==
    Done =>
        /\ (outcome.status = "KeyError") <=>
               \/ UnknownTier(call)
               \/ \E d \in DOMAIN call.discipline_percentages :
                     /\ d \notin DOMAIN ARCHITECT_DISCIPLINES
                     /\ call.discipline_percentages[d] > 0
        /\ (outcome.status = "KeyError") <=> ("result" \notin DOMAIN outcome)

\* a discipline outside the 17 at 0%: the call returns the baseline premium
C8_Witness ==
    /\ Done
    /\ UnknownDiscipline \in DOMAIN call.discipline_percentages
    /\ call.discipline_percentages[UnknownDiscipline] = 0
    /\ ~UnknownTier(call)
    /\ outcome.status = "ok"
    /\ outcome.result.final_premium = Pounds(4500, 20)

\* C8 as stated: the engine returns no result for an input with a discipline outside the
\* 17, whatever its percentage, or with a tier, multiplier or option outside its schedule.
C8_Original ==
    (Done /\ (UnknownTier(call)
                \/ ~(DOMAIN call.discipline_percentages \subseteq DOMAIN ARCHITECT_DISCIPLINES)))
        => outcome.status # "ok"

\* the keys of the dict the engine returns, lines 197-219: the audit trail of numbers
ResultKeys ==
    { "fee_income", "base_premium", "discipline_factor", "premium_after_disciplines",
      "fee_size_discount", "premium_after_fee_discount", "limit_factor",
      "premium_after_limit", "no_claims_discount", "premium_after_no_claims",
      "retroactive_discount", "premium_after_retro", "excess_discount",
      "premium_after_excess", "aggregate_excess_discount", "premium_after_agg_excess",
      "underwriter_discretion_factor", "final_premium", "standard_excess",
      "actual_excess", "limit_of_indemnity" }

\* C9 as amended: for a limit that is not a key of LIMIT_OF_INDEMNITY_FACTORS the engine
\* computes the premium with the factor 1.00 and signals the substitution by a warning
\* put on the page (st.warning) during the call; the returned dict carries no warning,
\* only limit_factor = 1.00 and the requested limit.  For a limit in the table the
\* tabulated factor is used and nothing is put on the page.
C9_LimitFallback ==
    (Done /\ outcome.status = "ok") =>
        /\ DOMAIN outcome.result = ResultKeys
        /\ outcome.result.limit_of_indemnity = call.limit_of_indemnity
        /\ outcome.result.premium_after_limit =
               BigMul(outcome.result.premium_after_fee_discount, outcome.result.limit_factor)
        /\ IF call.limit_of_indemnity \in DOMAIN LIMIT_OF_INDEMNITY_FACTORS
           THEN /\ outcome.result.limit_factor =
                       LIMIT_OF_INDEMNITY_FACTORS[call.limit_of_indemnity]
                /\ emitted = << >>
           ELSE /\ outcome.result.limit_factor = 100
                /\ emitted = <<LimitWarning(call.limit_of_indemnity)>>

C9_Witness ==
    /\ Done
    /\ outcome.status = "ok"
    /\ call.limit_of_indemnity = 1500000
    /\ outcome.result.limit_factor = 100
    /\ Len(emitted) = 1

\* C9 as stated: for a limit that is not in the table the returned result carries a
\* warning or annotation that a substitution occurred.
C9_Original ==
    (Done /\ outcome.status = "ok"
          /\ call.limit_of_indemnity \notin DOMAIN LIMIT_OF_INDEMNITY_FACTORS) =>
        /\ outcome.result.limit_factor = 100
        /\ DOMAIN outcome.result \ ResultKeys # {}

\* what a call puts on the page: the warning of get_limit_factor, when the limit is not
\* in the table and step 4 is reached
ExpectedOnPage(inp) ==
    IF /\ inp.limit_of_indemnity \notin DOMAIN LIMIT_OF_INDEMNITY_FACTORS
       /\ \A d \in DOMAIN inp.discipline_percentages :
             inp.discipline_percentages[d] > 0 => d \in DOMAIN ARCHITECT_DISCIPLINES
    THEN <<LimitWarning(inp.limit_of_indemnity)>>
    ELSE << >>

\* C10 as amended: every call leaves the rate tables unchanged; the only effect of a
\* call outside what it returns is the warning put on the page when the limit is not in
\* LIMIT_OF_INDEMNITY_FACTORS; and a call with the same input as an earlier call of the
\* run returns the same result and puts the same on the page, whatever calls were made
\* in between.
C10_PureButForWarning ==
    /\ tables = RateTables
    /\ Done =>
          /\ emitted = ExpectedOnPage(call)
          /\ (ref # NoCall /\ ref.call = call) =>
                 (ref.outcome = outcome /\ ref.emitted = emitted)

\* a second call at an unknown limit, after a first one and a call at another limit
C10_Witness ==
    /\ Done
    /\ ref # NoCall
    /\ ref.call = call
    /\ call.limit_of_indemnity = 1500000
    /\ outcome.status = "ok"
    /\ ref.outcome = outcome
    /\ emitted # << >>

\* C10 as stated: every call leaves the rate tables and all state outside the returned
\* result unchanged, and calls with identical input return identical results.
C10_Original ==
    /\ tables = RateTables
    /\ Done =>
          /\ emitted = << >>
          /\ (ref # NoCall /\ ref.call = call) => ref.outcome = outcome

-----------------------------------------------------------------------------
(* Order of steps 3 to 8, and compounding *)

\* the coded order with the steps at places i and j exchanged
Swapped(i, j) ==
    [k \in 1..6 |-> IF k = i THEN CodedOrder[j]
                    ELSE IF k = j THEN CodedOrder[i] ELSE CodedOrder[k]]

\* the orders compared with the coded one: every exchange of two steps, and the
\* steps backwards
OtherOrders ==
    ({ Swapped(i, j) : i \in 1..6, j \in 2..6 } \ {CodedOrder}) \cup {<<8, 7, 6, 5, 4, 3>>}

TenTo8 == Pounds(1, 8)
TenTo20 == Pounds(1, 20)
TwoTo48 == Pow2(48)
TwoTo49 == Pow2(49)

\* |a - b|
BigDistance(a, b) == IF BigCmp(a, b) >= 0 THEN BigSub(a, b) ELSE BigSub(b, a)

\* the floats x and y differ by rounding at most: |x - y| <= 2^-49 * y
F64Near(x, y) ==
    IF x = y \/ x.m = << >> \/ y.m = << >> THEN x = y
    ELSE LET e == Min(x.e, y.e)
             a == Aligned(x, e)
             b == Aligned(y, e)
         IN  BigCmp(BigMulBig(BigDistance(a, b), TwoTo49), b) <= 0

\* the value of the float x and the amount A (in 10^-20), both counted in the unit
\* 10^-20 * 2^e for the smaller e of x.e and 0
FloatSide(x) ==
    BigMulBig(BigMulBig(x.m, TenTo20), Pow2(IF x.e > 0 THEN x.e ELSE 0))

AmountSide(x, A) == BigMulBig(A, Pow2(IF x.e < 0 THEN -x.e ELSE 0))

\* the float x is the amount A exactly
F64IsAmount(x, A) == FloatSide(x) = AmountSide(x, A)

\* the float x is the amount A up to rounding: |x - A| <= 2^-48 * A
F64NearAmount(x, A) ==
    BigCmp(BigMulBig(BigDistance(FloatSide(x), AmountSide(x, A)), TwoTo48),
           AmountSide(x, A)) <= 0

\* the five discounts of a result, in the order of their steps 3, 5, 6, 7, 8
Discounts(r) ==
    << r.fee_size_discount, r.no_claims_discount, r.retroactive_discount,
       r.excess_discount, r.aggregate_excess_discount >>

NonZeroDiscounts(r) == Cardinality({ i \in 1..5 : Discounts(r)[i] # 0 })

SumOfDiscounts(r) == Sum(Discounts(r), 1..5)

\* the premium, in 10^-20, obtained by subtracting the sum of the discounts once:
\* premium_after_disciplines x limit_factor x (1 - sum) x underwriter factor, when
\* the sum is at most 1
AdditivePremium(r) ==
    BigMulBig(BigMul(BigMul(BigMul(r.premium_after_disciplines, r.limit_factor),
                            100 - SumOfDiscounts(r)),
                     r.underwriter_discretion_factor),
              TenTo8)

\* final_premium is that premium; with a sum above 1 the latter is negative or zero
SameAsAdditive(r) ==
    IF SumOfDiscounts(r) <= 100 THEN r.final_premium = AdditivePremium(r)
    ELSE r.final_premium = << >>

\* the float final_premium is that premium up to rounding
F64NearAdditive(x, r) ==
    IF SumOfDiscounts(r) <= 100 THEN F64NearAmount(x, AdditivePremium(r))
    ELSE x = F64Zero

\* the one combination of table discounts, two or more of them non-zero, whose
\* product of (1 - discount) is 1 - their sum: 0.8 x 0.8 x 0.75 x 1.25 = 0.6
Coinciding == <<20, 20, 25, -25, 0>>

\* a call in which only the retroactive and the excess discount are non-zero
OrderExample ==
    [Baseline EXCEPT !.fee_income = 50000, !.retroactive_coverage = "Inception",
                     !.excess_multiplier = 75]

\* a call with the discounts of Coinciding
CoincidingExample ==
    [Baseline EXCEPT !.fee_income = 600000, !.no_claims_period = "5-10 years",
                     !.retroactive_coverage = "Inception", !.excess_multiplier = 50]

\* the float next above x
NextUp(x) == [m |-> BigAdd(x.m, <<1>>), e |-> x.e]

=============================================================================
